---- MODULE Spec2Model ----
(***************************************************************************)
(* A model of the log pipeline of lambda-error-analyzer:                   *)
(*   - signature extraction and clustering  (lambdas/analyze_logs)         *)
(*   - the statistical alert filter          (lambdas/filter_alert)        *)
(*   - the aggregator                        (lambdas/aggregator)          *)
(*                                                                         *)
(* A log line is modelled as a sequence of tokens separated by single      *)
(* blanks.  Every token stands for one class of text the regular           *)
(* expressions of clusterer.py tell apart:                                 *)
(*   word    a plain word without digits            "a"                    *)
(*   num     a free-standing integer run            "1", "2"               *)
(*   numw    an integer run glued to letters        "1ms", "2ms"           *)
(*   hex     a hex literal                          "0x1", "0x2"           *)
(*   ip      an IPv4 address                        "10.0.0.1", "10.0.0.2" *)
(*   uuid    a UUID (version 1-5, variant 8-b)                             *)
(*   brace   braces that are not JSON               "{x}"                  *)
(*   details the literal                            "Details:"             *)
(*   jnum    a JSON object with a number in it      {"k": 1}, {"k": 2}     *)
(*   jstr    a JSON object with a string in it      {"k": "p"}, {"k": "q"} *)
(*   exc     an exception name with its colon       "KeyError:"            *)
(***************************************************************************)
EXTENDS Integers, Sequences, FiniteSets, TLC

VARIABLES
    \* signature extraction (ExtractSignature._extract_signature)
    line1, line2, sig1, sig2, sigPc,
    \* one fetched sequence of raw lines, analysed whole and as two batches
    rawLogs, inA, anaA, anaB, anaAll, digestAB, anPc,
    \* one invocation of the aggregator's handler
    sqsRecords, snsReady, digest, skipped, sink, aggStatus,
    \* one call of AlertFilter.should_alert
    historical_timestamps, now, decision, decPc,
    \* one call of filter_alert and the history table it reads and writes
    new_image, history_table, clock, idx, actionable_clusters,
    decisions, filtered_result, alerts_topic, filPc, publish_raised, filStatus,
    history_ops,
    \* one invocation of the handler of analyze_logs
    s3_file, fetched_logs, batch_no, batch_results, analysis_table, hStatus,
    \* two calls of MADModel.is_burst_anomaly on one history
    mad_history, mad_x, mad_y, mad_at_x, mad_at_y, madPc,
    \* one call of PermutationModel.has_burst_pattern_emerged
    perm_intervals, perm_shuffles, perm_burst, permPc,
    \* one call of should_alert as far as it trains its HMM
    bw_timestamps, bw_intervals, bw_iteration, bwPc,
    \* two invocations of filter_alert on one history table
    cc_table, cc_cluster, cc_read, cc_put, ccPc

sigVars == <<line1, line2, sig1, sig2, sigPc>>
anVars  == <<rawLogs, inA, anaA, anaB, anaAll, digestAB, anPc>>
aggVars == <<sqsRecords, snsReady, digest, skipped, sink, aggStatus>>
decVars == <<historical_timestamps, now, decision, decPc>>
filVars == <<new_image, history_table, clock, idx, actionable_clusters,
             decisions, filtered_result, alerts_topic, filPc, publish_raised,
             filStatus, history_ops>>
hdlVars == <<s3_file, fetched_logs, batch_no, batch_results, analysis_table,
             hStatus>>
madVars == <<mad_history, mad_x, mad_y, mad_at_x, mad_at_y, madPc>>
permVars == <<perm_intervals, perm_shuffles, perm_burst, permPc>>
bwVars == <<bw_timestamps, bw_intervals, bw_iteration, bwPc>>
ccVars == <<cc_table, cc_cluster, cc_read, cc_put, ccPc>>
vars == <<sigVars, anVars, aggVars, decVars, filVars, hdlVars, madVars,
          permVars, bwVars, ccVars>>

----------------------------------------------------------------------------
(* Bounds of the model *)

MaxToks == 3
MaxLines == 3
MaxRecords == 3

----------------------------------------------------------------------------
(* clusterer.py: constants *)

Levels == {"CRITICAL", "ERROR", "WARNING", "INFO", "SERVICE", "DEBUG"}

\* _LEVEL_RANK.get(level, 0)
LevelRank(lvl) ==
    CASE lvl = "CRITICAL" -> 4
      [] lvl = "ERROR"    -> 3
      [] lvl = "WARNING"  -> 2
      [] lvl = "INFO"     -> 1
      [] lvl = "SERVICE"  -> 1
      [] OTHER            -> 0

Kinds == {"word", "num", "numw", "hex", "ip", "uuid", "brace", "details",
          "jnum", "jstr", "exc"}

\* kinds whose text differs with v
Valued == {"num", "numw", "hex", "ip", "uuid", "jnum", "jstr"}

Tok(k, v) == [k |-> k, v |-> v]

\* One regex of _NORM applied to one token: a token the regex matches as a
\* whole loses its value (v = 0 stands for the placeholder), any other token
\* is left alone.  \b\d+\b does not match the digits of "1ms": there is no
\* word boundary between a digit and a letter.  Inside a JSON object the
\* number stands between non-word characters and is replaced.
NormRule(kind, t) ==
    IF t.v # 0 /\ (t.k = kind \/ (kind = "num" /\ t.k = "jnum"))
    THEN Tok(t.k, 0)
    ELSE t

\* _normalise: the four substitutions in the order of _NORM
NormaliseTok(t) ==
    NormRule("num", NormRule("ip", NormRule("uuid", NormRule("hex", t))))

_normalise(toks) == [i \in 1..Len(toks) |-> NormaliseTok(toks[i])]

----------------------------------------------------------------------------
(* clusterer.py: ExtractSignature._extract_signature                        *)
(*                                                                         *)
(* A line is [fmt, ts, lvl, toks]:                                         *)
(*   fmt = "blank"  an empty or all-blank line                             *)
(*   fmt = "json"   a JSON object with a "level" field lvl ("none": the    *)
(*                  field is absent) and a "msg" field of text toks        *)
(*   fmt = "text"   an optional leading ISO timestamp (ts), an optional    *)
(*                  bracketed level ("[ERROR]", lvl = "none": no level     *)
(*                  token anywhere) and the text toks after it             *)
(* A signature is [form, lvl, body]:                                       *)
(*   "empty"  ""                 "bare"  "ERROR"       "colon"  "ERROR:"   *)
(*   "msg"    "ERROR: <body>"    "hash"  "UNCLASSIFIED:<sha1 of body>"     *)
(***************************************************************************)

Line(fmt, ts, lvl, toks) == [fmt |-> fmt, ts |-> ts, lvl |-> lvl, toks |-> toks]

Sig(form, lvl, body) == [form |-> form, lvl |-> lvl, body |-> body]

EmptySig == Sig("empty", "", <<>>)

IsBraced(t) == t.k \in {"brace", "jnum", "jstr"}

IsJson(t) == t.k \in {"jnum", "jstr"}

\* log_message.lstrip().startswith('{')
StartsWithBrace(l) ==
    \/ l.fmt = "json"
    \/ /\ l.fmt = "text" /\ ~l.ts /\ l.lvl = "none"
       /\ Len(l.toks) > 0 /\ IsBraced(l.toks[1])

\* json.loads(log_message) succeeds: the whole line is one JSON object
LoadsAsJson(l) ==
    \/ l.fmt = "json"
    \/ /\ l.fmt = "text" /\ ~l.ts /\ l.lvl = "none"
       /\ Len(l.toks) = 1 /\ IsJson(l.toks[1])

\* js.get('level', js.get('severity', 'INFO')): the objects of the token
\* alphabet have the key "k" only
JsonLevel(l) == IF l.fmt = "json" /\ l.lvl # "none" THEN l.lvl ELSE "INFO"

\* js.get('msg') or js.get('message', '')
JsonMsg(l) == IF l.fmt = "json" THEN l.toks ELSE <<>>

\* lines 44-50
JsonSignature(l, min_severity) ==
    LET lvl == JsonLevel(l)
        msg == JsonMsg(l)
    IN  IF LevelRank(lvl) < LevelRank(min_severity) THEN EmptySig
        ELSE IF msg # <<>> THEN Sig("msg", lvl, _normalise(msg))
        ELSE Sig("colon", lvl, <<>>)

\* index of the first token with an opening brace, 0 when there is none
FirstBraced(toks) ==
    IF \E i \in 1..Len(toks) : IsBraced(toks[i])
    THEN CHOOSE i \in 1..Len(toks) :
            IsBraced(toks[i]) /\ \A j \in 1..(i-1) : ~IsBraced(toks[j])
    ELSE 0

\* re.search(r'(?:Details:)?\s*(\{.*\})$', candidate): the text must end in
\* "}" and group 1 starts at the first "{" of the candidate
JsonMatches(toks) == Len(toks) > 0 /\ IsBraced(toks[Len(toks)])

\* json.loads(json_part) succeeds: group 1 is one JSON object, that is, the
\* first brace of the candidate opens its last token and that token is JSON
JsonPartValid(toks) ==
    JsonMatches(toks) /\ FirstBraced(toks) = Len(toks) /\ IsJson(toks[Len(toks)])

\* candidate[:json_match.start()].strip(): the match starts at a "Details:"
\* that stands right before the brace
MainMessagePart(toks) ==
    LET b == FirstBraced(toks)
        e == IF b > 1 /\ toks[b-1].k = "details" THEN b - 2 ELSE b - 1
    IN  SubSeq(toks, 1, e)

\* index of the first exception name, 0 when there is none
FirstExc(toks) ==
    IF \E i \in 1..Len(toks) : toks[i].k = "exc"
    THEN CHOOSE i \in 1..Len(toks) :
            toks[i].k = "exc" /\ \A j \in 1..(i-1) : toks[j].k # "exc"
    ELSE 0

\* re.search(r'\b(\w+(Exception|Error))\b[^:]*:? (.+)', candidate): after
\* "KeyError:" the pattern needs a blank and at least one more character
ExcMatches(toks) == FirstExc(toks) # 0 /\ FirstExc(toks) < Len(toks)

\* f"{level}: {exc_match.group(1)} {exc_match.group(3)}": the name without
\* its colon, then everything after it; the text before the name is dropped
ExcMessage(toks) ==
    <<Tok("excname", 0)>> \o SubSeq(toks, FirstExc(toks) + 1, Len(toks))

\* lines 56-93
TextSignature(l, min_severity) ==
    LET toks == IF l.fmt = "text" THEN l.toks ELSE <<>>
        lvl  == IF l.fmt = "text" THEN l.lvl ELSE "none"
    IN  IF lvl = "none" THEN Sig("hash", "UNCLASSIFIED", _normalise(toks))
        ELSE IF LevelRank(lvl) < LevelRank(min_severity) THEN EmptySig
        ELSE IF JsonPartValid(toks)
             THEN Sig("msg", lvl, _normalise(MainMessagePart(toks)))
        ELSE IF ExcMatches(toks)
             THEN Sig("msg", lvl, _normalise(ExcMessage(toks)))
        ELSE IF toks # <<>> THEN Sig("msg", lvl, _normalise(toks))
        ELSE Sig("bare", lvl, <<>>)

_extract_signature(l, min_severity) ==
    IF StartsWithBrace(l) /\ LoadsAsJson(l)
    THEN JsonSignature(l, min_severity)
    ELSE TextSignature(l, min_severity)

\* not log_message.strip(): a text line without timestamp, level and text
\* is the empty string
IsBlank(l) ==
    \/ l.fmt = "blank"
    \/ l.fmt = "text" /\ ~l.ts /\ l.lvl = "none" /\ l.toks = <<>>

\* LogClusterer.extract_signature
extract_signature(l) ==
    IF IsBlank(l) THEN EmptySig ELSE _extract_signature(l, "DEBUG")

----------------------------------------------------------------------------
(* The lines the model draws its inputs from *)

RECURSIVE SeqsUpTo(_, _)
SeqsUpTo(S, n) ==
    IF n = 0 THEN {<<>>}
    ELSE LET shorter == SeqsUpTo(S, n - 1)
         IN  shorter \cup {Append(s, x) : s \in {t \in shorter : Len(t) = n - 1}, x \in S}

BaseToks == {Tok(k, 1) : k \in Kinds}

MsgToks == {Tok(k, 1) : k \in {"word", "num", "numw"}}

SigLevels == {"none", "ERROR", "INFO"}

TextLines ==
    {Line("text", ts, lvl, toks) :
        ts \in BOOLEAN, lvl \in SigLevels, toks \in SeqsUpTo(BaseToks, MaxToks)}

JsonLines ==
    {Line("json", FALSE, lvl, toks) :
        lvl \in SigLevels, toks \in SeqsUpTo(MsgToks, MaxToks)}

BlankLine == Line("blank", FALSE, "none", <<>>)

Lines == TextLines \cup JsonLines \cup {BlankLine}

\* The tokens normalization is to replace (integer runs, hex literals, IPv4
\* addresses, UUIDs) and a JSON object that ends the line
Replaceable(toks, i) ==
    \/ toks[i].k \in {"num", "hex", "ip", "uuid"}
    \/ i = Len(toks) /\ IsJson(toks[i])

\* The lines that differ from l only in such tokens: another number, another
\* address, another JSON object
Variants(l) ==
    LET n == Len(l.toks)
        values == {f \in [1..n -> 1..2] :
                     \A i \in 1..n : f[i] # l.toks[i].v => Replaceable(l.toks, i)}
    IN  {Line(l.fmt, l.ts, l.lvl, [i \in 1..n |-> Tok(l.toks[i].k, f[i])]) : f \in values}

----------------------------------------------------------------------------
(* Signature extraction of two lines *)

Null == [none |-> TRUE]

SigIdle ==
    /\ line1 = BlankLine /\ line2 = BlankLine
    /\ sig1 = EmptySig /\ sig2 = EmptySig /\ sigPc = "idle"

AnIdle ==
    /\ rawLogs = <<>> /\ inA = <<>> /\ anaA = Null /\ anaB = Null
    /\ anaAll = Null /\ digestAB = Null /\ anPc = "idle"

AggIdle ==
    /\ sqsRecords = <<>> /\ snsReady = FALSE /\ digest = Null /\ skipped = {}
    /\ sink = <<>> /\ aggStatus = "idle"

DecIdle ==
    /\ historical_timestamps = <<>> /\ now = 0 /\ decision = Null
    /\ decPc = "idle"

FilIdle ==
    /\ new_image = Null /\ history_table = <<>> /\ clock = 0 /\ idx = 0
    /\ actionable_clusters = <<>> /\ decisions = <<>>
    /\ filtered_result = Null /\ alerts_topic = <<>> /\ filPc = "idle"
    /\ publish_raised = FALSE /\ filStatus = "none" /\ history_ops = <<>>

HdlIdle ==
    /\ s3_file = Null /\ fetched_logs = <<>> /\ batch_no = 0
    /\ batch_results = <<>> /\ analysis_table = <<>> /\ hStatus = "idle"

MadIdle ==
    /\ mad_history = <<>> /\ mad_x = 0 /\ mad_y = 0
    /\ mad_at_x = FALSE /\ mad_at_y = FALSE /\ madPc = "idle"

PermIdle ==
    /\ perm_intervals = <<>> /\ perm_shuffles = 0 /\ perm_burst = FALSE
    /\ permPc = "idle"

BwIdle ==
    /\ bw_timestamps = 0 /\ bw_intervals = 0 /\ bw_iteration = 0
    /\ bwPc = "idle"

CcIdle ==
    /\ cc_table = {} /\ cc_cluster = <<>> /\ cc_read = <<>> /\ cc_put = <<>>
    /\ ccPc = <<>>

\* the remaining components, all at rest
RestIdle == PermIdle /\ BwIdle /\ CcIdle

SigInit ==
    /\ AnIdle /\ AggIdle /\ DecIdle /\ FilIdle /\ HdlIdle /\ MadIdle /\ RestIdle
    /\ line1 \in Lines
    /\ line2 \in Variants(line1)
    /\ sig1 = EmptySig
    /\ sig2 = EmptySig
    /\ sigPc = "start"

\* ExtractSignature()._extract_signature(line): the floor is the default
\* of __init__, "WARNING"
ExtractDirect ==
    /\ sigPc = "start"
    /\ sig1' = _extract_signature(line1, "WARNING")
    /\ sig2' = _extract_signature(line2, "WARNING")
    /\ sigPc' = "direct"
    /\ UNCHANGED <<line1, line2, anVars, aggVars, decVars, filVars, hdlVars, madVars,
                   permVars, bwVars, ccVars>>

\* LogClusterer.extract_signature(line)
ExtractViaClusterer ==
    /\ sigPc = "start"
    /\ sig1' = extract_signature(line1)
    /\ sig2' = extract_signature(line2)
    /\ sigPc' = "clusterer"
    /\ UNCHANGED <<line1, line2, anVars, aggVars, decVars, filVars, hdlVars, madVars,
                   permVars, bwVars, ccVars>>

SigNext == ExtractDirect \/ ExtractViaClusterer

SpecSig == SigInit /\ [][SigNext]_vars

----------------------------------------------------------------------------
(* clusterer.py: LogClusterer.cluster_logs *)

\* position of signature sg in the ordered dict groups, 0 when absent
KeyIndex(groups, sg) ==
    IF \E i \in 1..Len(groups) : groups[i].signature = sg
    THEN CHOOSE i \in 1..Len(groups) : groups[i].signature = sg
    ELSE 0

\* AppendLog with a slip: the list of a known signature is replaced, not
\* appended to
AppendLog_Replace(groups, sg, log) ==
    LET i == KeyIndex(groups, sg)
    IN  IF i = 0
        THEN Append(groups, [signature |-> sg, logs |-> <<log>>])
        ELSE [groups EXCEPT ![i].logs = <<log>>]

\* clusters[signature].append(log): a defaultdict(list) keeps its keys in
\* the order they were first seen
AppendLog(groups, sg, log) ==
    LET i == KeyIndex(groups, sg)
    IN  IF i = 0
        THEN Append(groups, [signature |-> sg, logs |-> <<log>>])
        ELSE [groups EXCEPT ![i].logs = Append(@, log)]

\* lines 119-123
RECURSIVE GroupLogs(_, _)
GroupLogs(raw_logs, groups) ==
    IF raw_logs = <<>> THEN groups
    ELSE LET log == Head(raw_logs)
             signature == extract_signature(log)
         IN  GroupLogs(Tail(raw_logs),
                       IF signature # EmptySig
                       THEN AppendLog(groups, signature, log)
                       ELSE groups)

\* lines 127-133
MakeCluster(g) ==
    [signature          |-> g.signature,
     count              |-> Len(g.logs),
     log_samples        |-> g.logs,
     representative_log |-> g.logs[1],
     is_recurring       |-> TRUE]

\* InsertByCount with a slip: c goes in front of the clusters of its count
InsertByCount_BeforeEquals(sorted, c) ==
    LET k == Cardinality({i \in 1..Len(sorted) : sorted[i].count > c.count})
    IN  SubSeq(sorted, 1, k) \o <<c>> \o SubSeq(sorted, k + 1, Len(sorted))

\* one step of a stable sort by count, descending: c goes behind every
\* cluster whose count is not smaller
InsertByCount(sorted, c) ==
    LET k == Cardinality({i \in 1..Len(sorted) : sorted[i].count >= c.count})
    IN  SubSeq(sorted, 1, k) \o <<c>> \o SubSeq(sorted, k + 1, Len(sorted))

\* sorted(clusters, key=lambda c: c["count"], reverse=True); Python's sort
\* is stable, also with reverse=True
RECURSIVE SortByCountDesc(_, _)
SortByCountDesc(cs, sorted) ==
    IF cs = <<>> THEN sorted
    ELSE SortByCountDesc(Tail(cs), InsertByCount(sorted, Head(cs)))

cluster_logs(raw_logs) ==
    LET groups == GroupLogs(raw_logs, <<>>)
        log_cluster_list == [i \in 1..Len(groups) |-> MakeCluster(groups[i])]
    IN  SortByCountDesc(log_cluster_list, <<>>)

----------------------------------------------------------------------------
(* analyze_logs/app.py: process_log_batch *)

\* The result of one batch; uid is the uuid4 drawn for it, summary the text
\* BedrockSummarizer.summarize_clusters returned
process_log_batch(raw_log_batch, uid, summary) ==
    LET log_clusters == cluster_logs(raw_log_batch)
    IN  [analysis_id          |-> uid,
         summary              |-> summary,
         total_logs_processed |-> Len(raw_log_batch),
         total_clusters_found |-> Len(log_clusters),
         clusters             |-> log_clusters]

\* summarize_clusters: a fixed text for no clusters, else the model's text
\* or the deterministic fallback
Summaries(log_clusters) ==
    IF log_clusters = <<>> THEN {"no clusters"} ELSE {"llm", "fallback"}

----------------------------------------------------------------------------
(* aggregator/app.py: merge_analysis_results                                *)
(*                                                                         *)
(* An SQS record is [decodes, wrapped, hasId, result]: decodes is whether   *)
(* json.loads accepts the body (and the inner Message), wrapped whether the *)
(* body is an SNS envelope, hasId whether the result has the key            *)
(* "analysis_id", isObject whether what was decoded is a JSON object (a     *)
(* body such as [] or "text" decodes to a value without the method get).    *)
(***************************************************************************)

Record(decodes, wrapped, hasId, result) ==
    [decodes |-> decodes, wrapped |-> wrapped, hasId |-> hasId, result |-> result,
     isObject |-> TRUE]

\* what stands for the result of a call that raised
Raised == [raised |-> TRUE]

\* line 43: analysis_result.get raises AttributeError on a list or a string,
\* which the except clause of line 59 does not name
RaisesAttributeError(record) == record.decodes /\ ~record.isObject

\* lines 23-26; analysis_id holds the ids appended to "consolidated-digest"
MergeStart ==
    [all_clusters |-> <<>>, total_logs |-> 0, all_summaries |-> <<>>,
     analysis_id |-> <<>>]

\* MergeCluster with a slip: a later occurrence of a signature is dropped
\* instead of added
MergeCluster_KeepFirst(all_clusters, cluster) ==
    LET sig == cluster.signature
        i   == KeyIndex(all_clusters, sig)
    IN  IF sig = EmptySig THEN all_clusters
        ELSE IF i = 0 THEN Append(all_clusters, cluster)
        ELSE all_clusters

\* lines 51-57: one cluster of a result
MergeCluster(all_clusters, cluster) ==
    LET sig == cluster.signature
        i   == KeyIndex(all_clusters, sig)
    IN  IF sig = EmptySig THEN all_clusters
        ELSE IF i = 0 THEN Append(all_clusters, cluster)
        ELSE [all_clusters EXCEPT ![i].count = @ + cluster.count]

RECURSIVE MergeClusters(_, _)
MergeClusters(all_clusters, clusters) ==
    IF clusters = <<>> THEN all_clusters
    ELSE MergeClusters(MergeCluster(all_clusters, Head(clusters)), Tail(clusters))

\* lines 31-61: one record.  A record that does not decode raises before
\* anything is added.  analysis_result["analysis_id"] raises KeyError only
\* while analysis_id is still "consolidated-digest" (the `and` does not
\* evaluate it otherwise), and by then total_logs has been added to.
MergeRecord(acc, record) ==
    IF ~record.decodes \/ RaisesAttributeError(record) THEN acc
    ELSE LET analysis_result == record.result
             counted == [acc EXCEPT !.total_logs = @ + analysis_result.total_logs_processed]
         IN  IF acc.analysis_id = <<>> /\ ~record.hasId THEN counted
             ELSE [counted EXCEPT
                     !.analysis_id =
                         IF @ = <<>> /\ analysis_result.analysis_id # ""
                         THEN Append(@, analysis_result.analysis_id) ELSE @,
                     !.all_summaries =
                         IF analysis_result.summary # ""
                         THEN Append(@, analysis_result.summary) ELSE @,
                     !.all_clusters = MergeClusters(@, analysis_result.clusters)]

RECURSIVE MergeRecords(_, _)
MergeRecords(acc, records) ==
    IF records = <<>> THEN acc
    ELSE MergeRecords(MergeRecord(acc, Head(records)), Tail(records))

\* lines 66-74: the master summary; synthesized is whether
\* synthesize_summaries returned
FinalSummary(all_summaries, synthesized) ==
    IF all_summaries = <<>> THEN <<>>
    ELSE IF synthesized THEN <<"synthesized">>
    ELSE all_summaries

\* merge_analysis_results with a slip: the clusters are left in the order
\* in which their signatures were merged
merge_analysis_results_Unsorted(records, synthesized) ==
    LET acc == MergeRecords(MergeStart, records)
    IN  IF \E i \in 1..Len(records) : RaisesAttributeError(records[i])
        THEN Raised
        ELSE [analysis_id          |-> acc.analysis_id,
              summary              |-> FinalSummary(acc.all_summaries, synthesized),
              clusters             |-> acc.all_clusters,
              total_clusters_found |-> Len(acc.all_clusters),
              total_logs_processed |-> acc.total_logs]

\* lines 19-83; the exception of a record the loop does not catch leaves
\* the function
merge_analysis_results(records, synthesized) ==
    LET acc == MergeRecords(MergeStart, records)
        sorted_clusters == SortByCountDesc(acc.all_clusters, <<>>)
    IN  IF \E i \in 1..Len(records) : RaisesAttributeError(records[i])
        THEN Raised
        ELSE [analysis_id          |-> acc.analysis_id,
              summary              |-> FinalSummary(acc.all_summaries, synthesized),
              clusters             |-> sorted_clusters,
              total_clusters_found |-> Len(sorted_clusters),
              total_logs_processed |-> acc.total_logs]

----------------------------------------------------------------------------
(* Analysis of a sequence of raw lines, whole and split into two batches,   *)
(* and the aggregation of the two batches' results                          *)

SampleLines ==
    { Line("text", TRUE,  "ERROR", <<Tok("word", 1), Tok("num", 1)>>),
      Line("text", FALSE, "ERROR", <<Tok("word", 1), Tok("num", 2)>>),
      Line("json", FALSE, "ERROR", <<Tok("word", 1), Tok("num", 1)>>),
      Line("text", FALSE, "INFO",  <<Tok("word", 1)>>),
      Line("text", TRUE,  "none",  <<Tok("word", 1), Tok("jstr", 1)>>),
      BlankLine }

\* the lines of raw_logs the mask keeps, in their order
RECURSIVE Select(_, _, _)
Select(raw_logs, mask, keep) ==
    IF raw_logs = <<>> THEN <<>>
    ELSE (IF Head(mask) = keep THEN <<Head(raw_logs)>> ELSE <<>>)
         \o Select(Tail(raw_logs), Tail(mask), keep)

AnInit ==
    /\ SigIdle /\ AggIdle /\ DecIdle /\ FilIdle /\ HdlIdle /\ MadIdle /\ RestIdle
    /\ rawLogs \in SeqsUpTo(SampleLines, MaxLines)
    /\ inA \in [1..Len(rawLogs) -> BOOLEAN]
    /\ anaA = Null /\ anaB = Null /\ anaAll = Null /\ digestAB = Null
    /\ anPc = "start"

SummaryOf(raw_log_batch, s) ==
    IF s \in Summaries(cluster_logs(raw_log_batch)) THEN s ELSE "no clusters"

\* process_log_batch on batch A, on batch B and on the undivided input
AnalyzeBatches ==
    /\ anPc = "start"
    /\ \E s \in {"llm", "fallback"} :
        LET A == Select(rawLogs, inA, TRUE)
            B == Select(rawLogs, inA, FALSE)
        IN  /\ anaA' = process_log_batch(A, "u1", SummaryOf(A, s))
            /\ anaB' = process_log_batch(B, "u2", SummaryOf(B, s))
            /\ anaAll' = process_log_batch(rawLogs, "u3", SummaryOf(rawLogs, s))
    /\ anPc' = "analysed"
    /\ UNCHANGED <<rawLogs, inA, digestAB, sigVars, aggVars, decVars, filVars, hdlVars, madVars,
                   permVars, bwVars, ccVars>>

\* merge_analysis_results on the two batches' results, each in one record
AggregateAB ==
    /\ anPc = "analysed"
    /\ \E wrapped \in BOOLEAN, synthesized \in BOOLEAN :
        digestAB' = merge_analysis_results(
                        <<Record(TRUE, wrapped, TRUE, anaA),
                          Record(TRUE, wrapped, TRUE, anaB)>>, synthesized)
    /\ anPc' = "aggregated"
    /\ UNCHANGED <<rawLogs, inA, anaA, anaB, anaAll, sigVars, aggVars, decVars, filVars, hdlVars, madVars,
                   permVars, bwVars, ccVars>>

AnNext == AnalyzeBatches \/ AggregateAB

SpecAnalyze == AnInit /\ [][AnNext]_vars

----------------------------------------------------------------------------
(* aggregator/app.py: handler *)

SigX == Sig("msg", "ERROR", <<Tok("word", 1)>>)
SigY == Sig("bare", "ERROR", <<>>)

LogX == Line("text", FALSE, "ERROR", <<Tok("word", 1)>>)
LogY == Line("text", FALSE, "ERROR", <<>>)

Cluster(sg, n, log) ==
    [signature |-> sg, count |-> n, log_samples |-> [i \in 1..n |-> log],
     representative_log |-> log, is_recurring |-> TRUE]

Result(uid, summary, total, clusters) ==
    [analysis_id |-> uid, summary |-> summary, total_logs_processed |-> total,
     total_clusters_found |-> Len(clusters), clusters |-> clusters]

ResultX  == Result("u1", "s1", 3, <<Cluster(SigX, 3, LogX)>>)
ResultYX == Result("u2", "", 3, <<Cluster(SigY, 2, LogY), Cluster(SigX, 1, LogX)>>)
ResultXX == Result("u3", "s3", 4,
                   <<Cluster(SigX, 1, LogX), Cluster(EmptySig, 1, BlankLine),
                     Cluster(SigX, 2, LogX)>>)
ResultNone == Result("u4", "s4", 1, <<>>)

SampleRecords ==
    { Record(TRUE,  FALSE, TRUE,  ResultX),
      Record(TRUE,  TRUE,  TRUE,  ResultX),
      Record(TRUE,  FALSE, TRUE,  ResultYX),
      Record(TRUE,  FALSE, FALSE, ResultXX),
      Record(TRUE,  TRUE,  TRUE,  ResultNone),
      Record(FALSE, FALSE, TRUE,  ResultX),
      [Record(TRUE, FALSE, FALSE, ResultNone) EXCEPT !.isObject = FALSE] }

\* whether the loop body raises on sqsRecords[i] (the except of lines 59-61)
RaisesAt(recs, i) ==
    \/ ~recs[i].decodes
    \/ /\ ~recs[i].hasId
       /\ MergeRecords(MergeStart, SubSeq(recs, 1, i - 1)).analysis_id = <<>>

AggInit ==
    /\ SigIdle /\ AnIdle /\ DecIdle /\ FilIdle /\ HdlIdle /\ MadIdle /\ RestIdle
    /\ sqsRecords \in SeqsUpTo(SampleRecords, MaxRecords)
    /\ snsReady \in BOOLEAN
    /\ digest = Null /\ skipped = {} /\ sink = <<>>
    /\ aggStatus = "start"

\* lines 86-121; published is whether SNS_CLIENT.publish returns.  The call
\* of merge_analysis_results (line 101) is outside every try
AggHandler ==
    /\ aggStatus = "start"
    /\ \E synthesized \in BOOLEAN, published \in BOOLEAN :
        LET consolidated_result == merge_analysis_results(sqsRecords, synthesized)
        IN  IF ~snsReady
            THEN /\ aggStatus' = "500"
                 /\ UNCHANGED <<digest, skipped, sink>>
            ELSE IF sqsRecords = <<>>
            THEN /\ aggStatus' = "200"
                 /\ UNCHANGED <<digest, skipped, sink>>
            ELSE IF consolidated_result = Raised
            THEN /\ aggStatus' = "raised"
                 /\ UNCHANGED <<digest, skipped, sink>>
            ELSE /\ digest' = consolidated_result
                 /\ skipped' = {i \in 1..Len(sqsRecords) : RaisesAt(sqsRecords, i)}
                 /\ IF consolidated_result.clusters = <<>>
                    THEN aggStatus' = "200" /\ sink' = sink
                    ELSE IF published
                    THEN aggStatus' = "200" /\ sink' = Append(sink, consolidated_result)
                    ELSE aggStatus' = "raised" /\ sink' = sink
    /\ UNCHANGED <<sqsRecords, snsReady, sigVars, anVars, decVars, filVars, hdlVars, madVars,
                   permVars, bwVars, ccVars>>

AggNext == AggHandler

SpecAgg == AggInit /\ [][AggNext]_vars

----------------------------------------------------------------------------
(* filter_alert: time and the statistics of intervals                      *)
(*                                                                         *)
(* A timestamp is a whole number of 1/UnitsPerHour hours; an interval in   *)
(* hours is a difference of timestamps over UnitsPerHour.  Medians are     *)
(* kept doubled (Median2 = 2 * median) and the MAD fourfold (Mad4), so     *)
(* that the comparisons of the code are decided in whole numbers.          *)

UnitsPerHour == 100

Abs(x) == IF x < 0 THEN 0 - x ELSE x

Max(a, b) == IF a >= b THEN a ELSE b

RECURSIVE Sum(_)
Sum(s) == IF s = <<>> THEN 0 ELSE Head(s) + Sum(Tail(s))

\* sorted(xs): ascending
RECURSIVE InsertAsc(_, _)
InsertAsc(sorted, x) ==
    IF sorted = <<>> THEN <<x>>
    ELSE IF x < Head(sorted) THEN <<x>> \o sorted
    ELSE <<Head(sorted)>> \o InsertAsc(Tail(sorted), x)

RECURSIVE SortAsc(_)
SortAsc(xs) ==
    IF xs = <<>> THEN <<>> ELSE InsertAsc(SortAsc(Tail(xs)), Head(xs))

\* [(timestamps[i] - timestamps[i-1]) for i in range(1, n)]
Intervals(timestamps) ==
    [i \in 1..(Len(timestamps) - 1) |-> timestamps[i + 1] - timestamps[i]]

\* 2 * statistics.median(xs), xs not empty
Median2(xs) ==
    LET s == SortAsc(xs)
        n == Len(xs)
    IN  IF n % 2 = 1 THEN 2 * s[(n + 1) \div 2]
        ELSE s[n \div 2] + s[n \div 2 + 1]

\* 4 * median([abs(interval - median) for interval in xs])
Mad4(xs) ==
    LET med2 == Median2(xs)
    IN  Median2([i \in 1..Len(xs) |-> Abs(2 * xs[i] - med2)])

\* math.isclose(a, b): rel_tol = 1e-09, abs_tol = 0.0
RelTolInv == 1000000000

\* IsClose with a slip: only equal numbers are close
IsClose_Exact(a, b) == a = b

IsClose(a, b) == Abs(a - b) <= Max(Abs(a), Abs(b)) \div RelTolInv

\* 0.6745 and 3.5, both times 10000
ZCoeff == 6745
ZThreshold == 35000

\* alert_stats.py: AlertFilter._should_alert_by_mad_interval, threshold 3.5
_should_alert_by_mad_interval(new_interval, historical_intervals) ==
    IF Len(historical_intervals) < 2 THEN 10 * new_interval < UnitsPerHour
    ELSE LET med2 == Median2(historical_intervals)
             mad4 == Mad4(historical_intervals)
         IN  IF mad4 = 0 THEN ~IsClose(2 * new_interval, med2)
             ELSE 2 * ZCoeff * Abs(2 * new_interval - med2) > ZThreshold * mad4

\* is_burst_anomaly with a slip: the size of the z-score is tested, not its
\* sign
is_burst_anomaly_TwoSided(new_interval, historical_intervals) ==
    IF Len(historical_intervals) < 2 THEN 10 * new_interval < UnitsPerHour
    ELSE LET med2 == Median2(historical_intervals)
             mad4 == Mad4(historical_intervals)
         IN  IF mad4 = 0
             THEN 2 * new_interval < med2 /\ ~IsClose(2 * new_interval, med2)
             ELSE 2 * ZCoeff * Abs(2 * new_interval - med2) > ZThreshold * mad4

\* mad_model.py: MADModel.is_burst_anomaly
is_burst_anomaly(new_interval, historical_intervals) ==
    IF Len(historical_intervals) < 2 THEN 10 * new_interval < UnitsPerHour
    ELSE LET med2 == Median2(historical_intervals)
             mad4 == Mad4(historical_intervals)
         IN  IF mad4 = 0
             THEN 2 * new_interval < med2 /\ ~IsClose(2 * new_interval, med2)
             ELSE 2 * ZCoeff * (2 * new_interval - med2) < 0 - ZThreshold * mad4

\* permutation_model.py: PermutationModel.has_burst_pattern_emerged.
\* significant is whether fewer than ALPHA of the N_PERMUTATIONS shuffles
\* come out at or below the observed difference: random.shuffle decides it.
MIN_SAMPLE_SIZE == 5

\* has_burst_pattern_emerged with a slip: equal means go on to the shuffles
has_burst_pattern_emerged_EqualMeansTested(historical_intervals, significant) ==
    LET n == Len(historical_intervals)
        recent_window_size == Max(MIN_SAMPLE_SIZE, n \div 4)
    IN  IF n < recent_window_size + MIN_SAMPLE_SIZE THEN FALSE
        ELSE LET recent_sample ==
                     SubSeq(historical_intervals, n - recent_window_size + 1, n)
                 historical_sample ==
                     SubSeq(historical_intervals, 1, n - recent_window_size)
             IN  IF Sum(recent_sample) * Len(historical_sample)
                        > Sum(historical_sample) * Len(recent_sample)
                 THEN FALSE
                 ELSE significant

has_burst_pattern_emerged(historical_intervals, significant) ==
    LET n == Len(historical_intervals)
        recent_window_size == Max(MIN_SAMPLE_SIZE, n \div 4)
    IN  IF n < recent_window_size + MIN_SAMPLE_SIZE THEN FALSE
        ELSE LET recent_sample ==
                     SubSeq(historical_intervals, n - recent_window_size + 1, n)
                 historical_sample ==
                     SubSeq(historical_intervals, 1, n - recent_window_size)
             IN  \* mean_recent - mean_hist >= 0
                 IF Sum(recent_sample) * Len(historical_sample)
                        >= Sum(historical_sample) * Len(recent_sample)
                 THEN FALSE
                 ELSE significant

----------------------------------------------------------------------------
(* alert_stats.py: AlertFilter.should_alert                                *)
(*                                                                         *)
(* The Baum-Welch and Viterbi passes of lines 175-187 work in floating     *)
(* point; their outcome is_burst_state is an input of the model            *)
(* (hmm_is_burst), and both outcomes are admitted for every history.       *)
(* should_alert returns a bare bool: consulted (which statistical model    *)
(* the call ran) and hmm (what the HMM said, when it ran) are recorded     *)
(* beside it.                                                              *)

TRUST_THRESHOLD == 20

Verdict(alert, consulted, hmm) ==
    [alert |-> alert, consulted |-> consulted, hmm |-> hmm]

\* lines 156-168: no event yet, or the MAD heuristic
HeuristicVerdict(historical_ts, now_ts) ==
    LET n == Len(historical_ts)
    IN  IF n = 0 THEN Verdict(TRUE, {}, "not run")
        ELSE LET timestamps == SortAsc(historical_ts)
                 new_interval == now_ts - timestamps[n]
                 historical_intervals == Intervals(timestamps)
             IN  Verdict(_should_alert_by_mad_interval(new_interval,
                                                       historical_intervals),
                         {"MAD"}, "not run")

\* HmmVerdict with a slip: the heuristic of the sparse histories is applied
\* to the rich ones as well, and either may raise the alert
HmmVerdict_WithMad(historical_ts, now_ts, hmm_is_burst) ==
    LET timestamps == SortAsc(historical_ts)
    IN  Verdict(hmm_is_burst
                  \/ _should_alert_by_mad_interval(
                         now_ts - timestamps[Len(timestamps)],
                         Intervals(timestamps)),
                {"MAD", "HMM"}, IF hmm_is_burst THEN "BURST" ELSE "NORMAL")

\* lines 170-194: the verdict of the HMM is returned as it is
HmmVerdict(historical_ts, now_ts, hmm_is_burst) ==
    Verdict(hmm_is_burst, {"HMM"}, IF hmm_is_burst THEN "BURST" ELSE "NORMAL")

should_alert(historical_ts, now_ts, hmm_is_burst) ==
    IF Len(historical_ts) < TRUST_THRESHOLD
    THEN HeuristicVerdict(historical_ts, now_ts)
    ELSE HmmVerdict(historical_ts, now_ts, hmm_is_burst)

----------------------------------------------------------------------------
(* One call of should_alert on a history of the table *)

MaxHist == 41
SmallHist == 4
MaxTail == 2

HistSizes ==
    (0..SmallHist) \cup ((TRUST_THRESHOLD - 1)..(TRUST_THRESHOLD + 1))
                   \cup ((MaxHist - 2)..MaxHist)

\* the gaps, in units, between consecutive events of a history: HeadGap for
\* the oldest headLen of them, tailGap for the newest tailLen, and between
\* the two base and base + jitter in turn
HeadGap == UnitsPerHour \div 20

GapAt(i, nGaps, base, jitter, headLen, tailLen, tailGap) ==
    IF i > nGaps - tailLen THEN tailGap
    ELSE IF i <= headLen THEN HeadGap
    ELSE IF i % 2 = 0 THEN base + jitter ELSE base

\* the items of a query with ScanIndexForward=False: newest first
RECURSIVE NewestFirst(_, _)
NewestFirst(first, gaps) ==
    IF gaps = <<>> THEN <<first>>
    ELSE NewestFirst(first + Head(gaps), Tail(gaps)) \o <<first>>

History(n, base, jitter, headLen, tailLen, tailGap) ==
    IF n = 0 THEN <<>>
    ELSE NewestFirst(0, [i \in 1..(n - 1) |->
                GapAt(i, n - 1, base, jitter, headLen, tailLen, tailGap)])

Bases == {UnitsPerHour}
Jitters == {0, UnitsPerHour}
TailGaps == {5, 3 * UnitsPerHour}
NewGaps == {1, 2, 9, 10, 90, 100, 200, 1000}

HeadLens == {0, TRUST_THRESHOLD \div 2}

Histories ==
    {History(n, base, jitter, headLen, tailLen, tailGap) :
        n \in HistSizes, base \in Bases, jitter \in Jitters,
        headLen \in HeadLens, tailLen \in 0..MaxTail, tailGap \in TailGaps}

DecInit ==
    /\ SigIdle /\ AnIdle /\ AggIdle /\ FilIdle /\ HdlIdle /\ MadIdle /\ RestIdle
    /\ historical_timestamps \in Histories
    /\ \E newGap \in NewGaps :
          now = IF historical_timestamps = <<>> THEN newGap
                ELSE Head(historical_timestamps) + newGap
    /\ decision = Null
    /\ decPc = "start"

\* AlertFilter.should_alert(historical_timestamps) at the time now
Decide ==
    /\ decPc = "start"
    /\ \E hmm_is_burst \in BOOLEAN :
          decision' = should_alert(historical_timestamps, now, hmm_is_burst)
    /\ decPc' = "decided"
    /\ UNCHANGED <<historical_timestamps, now, sigVars, anVars, aggVars, filVars, hdlVars, madVars,
                   permVars, bwVars, ccVars>>

DecNext == Decide

SpecDecide == DecInit /\ [][DecNext]_vars

----------------------------------------------------------------------------
(* filter_alert/app.py: filter_alert on the clusters of one analysis       *)
(* result, with the history table it reads and writes                      *)

MaxClusters == 2

\* the signatures that have a partition in the history table
FilterSigs == {SigX, SigY}

\* a WARNING signature the table holds nothing for
SigW == Sig("msg", "WARNING", <<Tok("word", 1)>>)

\* a cluster as the stream delivers it.  signature EmptySig is one for which
\* `not signature` holds, count NoneCount is None, and timestamps <<>> is a
\* cluster without the key (the clusters of cluster_logs have none)
NoneCount == 0 - 1

StreamCluster(sg, n, timestamps) ==
    [signature |-> sg, count |-> n, timestamps |-> timestamps]

FilterNow == 30 * UnitsPerHour

SampleClusters ==
    {StreamCluster(SigX, 2, <<>>),
     StreamCluster(SigX, 1, <<FilterNow - 1>>),
     StreamCluster(SigY, 3, <<FilterNow - 2, FilterNow - 1>>),
     StreamCluster(SigY, NoneCount, <<FilterNow - 1>>),
     StreamCluster(SigW, 3, <<>>),
     StreamCluster(EmptySig, 1, <<>>)}

\* what the table holds for one signature: nothing, one event an hour old,
\* one recent event, and TRUST_THRESHOLD hourly events
SampleHistories ==
    {{}, {FilterNow - UnitsPerHour}, {FilterNow - 5},
     {FilterNow - k * UnitsPerHour : k \in 1..TRUST_THRESHOLD}}

RECURSIVE NewestFirstOf(_)
NewestFirstOf(S) ==
    IF S = {} THEN <<>>
    ELSE LET newest == CHOOSE t \in S : \A u \in S : u <= t
         IN  <<newest>> \o NewestFirstOf(S \ {newest})

\* the items the table holds under one partition key
ItemsOf(table, signature) ==
    IF signature \in DOMAIN table THEN table[signature] ELSE {}

\* lines 33-53: the timestamps of the items of the query, or [] when the
\* query raises ClientError
get_historical_data_for_cluster(table, signature, query_ok) ==
    IF query_ok THEN NewestFirstOf(ItemsOf(table, signature)) ELSE <<>>

\* lines 55-80: one put_item per timestamp under the key (signature,
\* timestamp), or nothing written when the batch writer raises ClientError
update_history_with_individual_events(table, signature, timestamps, write_ok) ==
    IF write_ok
    THEN [sg \in DOMAIN table \cup {signature} |->
             IF sg = signature
             THEN ItemsOf(table, sg) \cup
                      {timestamps[i] : i \in 1..Len(timestamps)}
             ELSE table[sg]]
    ELSE table

\* AppendIfAlert with a slip: the cluster is kept whatever the decision
AppendIfAlert_Always(actionable, cluster, alert) ==
    Append(actionable, cluster)

\* lines 106-107: if AlertFilter.should_alert(...): append
AppendIfAlert(actionable, cluster, alert) ==
    IF alert THEN Append(actionable, cluster) ELSE actionable

FilInit ==
    /\ SigIdle /\ AnIdle /\ AggIdle /\ DecIdle /\ HdlIdle /\ MadIdle /\ RestIdle
    /\ \E clusters \in SeqsUpTo(SampleClusters, MaxClusters) :
          new_image = [clusters |-> clusters]
    /\ history_table \in [FilterSigs -> SampleHistories]
    /\ clock = FilterNow
    /\ idx = 1
    /\ actionable_clusters = <<>>
    /\ decisions = <<>>
    /\ filtered_result = Null
    /\ alerts_topic = <<>>
    /\ filPc = "loop"
    /\ publish_raised = FALSE
    /\ filStatus = "none"
    /\ history_ops = <<>>

\* What a call of the table can do: return, raise the ClientError that
\* both functions catch, or raise something else (botocore's connection and
\* timeout errors are no ClientError), which nothing in filter_alert catches
CallOutcomes == {"ok", "ClientError", "other"}

\* one entry of the record of what an invocation did to the table and when
\* it decided
Op(kind, cluster, outcome) == [op |-> kind, cluster |-> cluster, outcome |-> outcome]

\* lines 94-113: one turn of the loop over the clusters.  An exception that
\* leaves filter_alert is caught by the handler (lines 165-168), which gives
\* the record up and returns 200 (line 170)
FilterCluster ==
    /\ filPc = "loop"
    /\ idx <= Len(new_image.clusters)
    /\ LET cluster == new_image.clusters[idx]
           signature == cluster.signature
       IN  IF signature = EmptySig \/ cluster.count = NoneCount
           THEN /\ idx' = idx + 1
                /\ UNCHANGED <<history_table, actionable_clusters, decisions,
                               history_ops, filPc, filStatus>>
           ELSE \E query \in CallOutcomes, hmm_is_burst \in BOOLEAN,
                   write \in CallOutcomes :
                LET historical_data ==
                        get_historical_data_for_cluster(history_table,
                                                        signature, query = "ok")
                    verdict == should_alert(historical_data, clock, hmm_is_burst)
                    writes == cluster.timestamps # <<>>
                    read_op == Op("read", idx, query)
                    ops == <<read_op, Op("decide", idx, "ok")>>
                           \o (IF writes THEN <<Op("write", idx, write)>>
                               ELSE <<>>)
                IN  IF query = "other"
                    THEN /\ history_ops' = Append(history_ops, read_op)
                         /\ filPc' = "aborted" /\ filStatus' = "200"
                         /\ UNCHANGED <<history_table, actionable_clusters,
                                        decisions, idx>>
                    ELSE /\ actionable_clusters' =
                                 AppendIfAlert(actionable_clusters, cluster,
                                               verdict.alert)
                         /\ decisions' = Append(decisions,
                                 [cluster |-> idx,
                                  historical_data |-> historical_data,
                                  alert |-> verdict.alert,
                                  consulted |-> verdict.consulted])
                         /\ history_table' =
                                 IF writes
                                 THEN update_history_with_individual_events(
                                          history_table, signature,
                                          cluster.timestamps, write = "ok")
                                 ELSE history_table
                         /\ history_ops' = history_ops \o ops
                         /\ IF writes /\ write = "other"
                            THEN /\ filPc' = "aborted" /\ filStatus' = "200"
                                 /\ idx' = idx
                            ELSE /\ idx' = idx + 1
                                 /\ UNCHANGED <<filPc, filStatus>>
    /\ UNCHANGED <<new_image, clock, filtered_result, alerts_topic,
                   publish_raised, sigVars, anVars, aggVars, decVars,
                   hdlVars, madVars,
                   permVars, bwVars, ccVars>>

\* lines 116-119: the result rebuilt from the actionable clusters
FilterRebuild ==
    /\ filPc = "loop"
    /\ idx > Len(new_image.clusters)
    /\ filtered_result' =
          [clusters |-> actionable_clusters,
           total_logs_processed |->
               Sum([i \in 1..Len(actionable_clusters) |->
                        actionable_clusters[i].count]),
           total_clusters_found |-> Len(actionable_clusters)]
    /\ filPc' = "rebuilt"
    /\ UNCHANGED <<new_image, history_table, clock, idx, actionable_clusters,
                   decisions, alerts_topic, publish_raised, filStatus,
                   history_ops, sigVars, anVars, aggVars, decVars,
                   hdlVars, madVars,
                   permVars, bwVars, ccVars>>

\* handler, lines 153-170: the result is published when clusters remain; an
\* exception of sns.publish is caught, the record is given up, and the
\* handler returns statusCode 200 after the last record
FilterPublish ==
    /\ filPc = "rebuilt"
    /\ IF filtered_result.clusters # <<>>
       THEN \E publish_ok \in BOOLEAN :
               /\ alerts_topic' = IF publish_ok
                                  THEN Append(alerts_topic, filtered_result)
                                  ELSE alerts_topic
               /\ publish_raised' = ~publish_ok
       ELSE /\ alerts_topic' = alerts_topic
            /\ publish_raised' = FALSE
    /\ filStatus' = "200"
    /\ filPc' = "done"
    /\ UNCHANGED <<new_image, history_table, clock, idx, actionable_clusters,
                   decisions, filtered_result, history_ops,
                   sigVars, anVars, aggVars, decVars, hdlVars, madVars,
                   permVars, bwVars, ccVars>>

FilNext == FilterCluster \/ FilterRebuild \/ FilterPublish

SpecFilter == FilInit /\ [][FilNext]_vars

----------------------------------------------------------------------------
(* analyze_logs/app.py: one invocation of handler on an S3 event            *)

\* the number of lines of one sub-batch (10000 at line 124), scaled down
batch_size == 2

MaxFileLines == 5

\* The object of the event is [ok, lines]: ok is whether get_object, the
\* decompression and the decoding all return, lines are the lines of the
\* text, each ended by a newline; a blank line is the empty string.
FileLines == {LogX, LogY, BlankLine}

S3Files == [ok : BOOLEAN, lines : SeqsUpTo(FileLines, MaxFileLines)]

NL == [newline |-> TRUE]

\* the text as a string: every line followed by "\n"
RECURSIVE LogString(_)
LogString(lines) ==
    IF lines = <<>> THEN <<>>
    ELSE (IF Head(lines) = BlankLine THEN <<>> ELSE <<Head(lines)>>)
         \o <<NL>> \o LogString(Tail(lines))

\* str.replace('\n\n', '\n'): the pairs are taken from the left and do not
\* overlap
RECURSIVE ReplaceDoubleNewline(_)
ReplaceDoubleNewline(str) ==
    IF str = <<>> THEN <<>>
    ELSE IF Len(str) >= 2 /\ str[1] = NL /\ str[2] = NL
    THEN <<NL>> \o ReplaceDoubleNewline(SubSeq(str, 3, Len(str)))
    ELSE <<Head(str)>> \o ReplaceDoubleNewline(Tail(str))

\* str.strip()
RECURSIVE Strip(_)
Strip(str) ==
    IF str = <<>> THEN <<>>
    ELSE IF Head(str) = NL THEN Strip(Tail(str))
    ELSE IF str[Len(str)] = NL THEN Strip(SubSeq(str, 1, Len(str) - 1))
    ELSE str

\* str.split('\n'), piece being what was read since the last newline: the
\* empty string splits into ['']
RECURSIVE SplitLines(_, _)
SplitLines(str, piece) ==
    IF str = <<>> THEN <<piece>>
    ELSE IF Head(str) = NL THEN <<piece>> \o SplitLines(Tail(str), BlankLine)
    ELSE SplitLines(Tail(str), Head(str))

\* lines 34-58: every exception is caught and answered with []
get_logs_from_s3(file) ==
    IF file.ok
    THEN SplitLines(Strip(ReplaceDoubleNewline(LogString(file.lines))), BlankLine)
    ELSE <<>>

\* NumBatches with a slip: the division rounds down
NumBatches_Floor(total_lines) == total_lines \div batch_size

\* line 127: ceiling division
NumBatches(total_lines) == (total_lines + batch_size - 1) \div batch_size

Min(a, b) == IF a <= b THEN a ELSE b

\* lines 129-131: raw_logs[start_index:end_index] of turn i (from 0); a
\* slice ends where the list ends
BatchLines(raw_logs, i) ==
    SubSeq(raw_logs, i * batch_size + 1,
           Min(i * batch_size + batch_size, Len(raw_logs)))

HdlInit ==
    /\ SigIdle /\ AnIdle /\ AggIdle /\ DecIdle /\ FilIdle /\ MadIdle /\ RestIdle
    /\ s3_file \in {Null} \cup S3Files
    /\ fetched_logs = <<>>
    /\ batch_no = 0
    /\ batch_results = <<>>
    /\ analysis_table = <<>>
    /\ hStatus = "start"

\* lines 111-119: an event without an S3 record is answered with 200; else
\* the object is fetched
HandlerFetch ==
    /\ hStatus = "start"
    /\ IF s3_file = Null
       THEN hStatus' = "200" /\ fetched_logs' = fetched_logs
       ELSE hStatus' = "fetched" /\ fetched_logs' = get_logs_from_s3(s3_file)
    /\ UNCHANGED <<s3_file, batch_no, batch_results, analysis_table,
                   sigVars, anVars, aggVars, decVars, filVars, madVars,
                   permVars, bwVars, ccVars>>

\* lines 128-134, one turn of the loop: process_log_batch on the slice;
\* persist_analysis_to_dynamodb raises again what put_item raises
HandlerBatch ==
    /\ hStatus = "fetched"
    /\ batch_no < NumBatches(Len(fetched_logs))
    /\ \E s \in {"llm", "fallback"}, put_ok \in BOOLEAN :
        LET batch_lines == BatchLines(fetched_logs, batch_no)
            analysis_result ==
                process_log_batch(batch_lines, ToString(batch_no + 1),
                                  SummaryOf(batch_lines, s))
        IN  IF put_ok
            THEN /\ analysis_table' = Append(analysis_table, analysis_result)
                 /\ batch_results' = Append(batch_results, analysis_result)
                 /\ batch_no' = batch_no + 1
                 /\ hStatus' = hStatus
            ELSE /\ hStatus' = "raised"
                 /\ UNCHANGED <<analysis_table, batch_results, batch_no>>
    /\ UNCHANGED <<s3_file, fetched_logs,
                   sigVars, anVars, aggVars, decVars, filVars, madVars,
                   permVars, bwVars, ccVars>>

\* lines 136-145: statusCode 200 with "Log file empty." when raw_logs is
\* empty, with the results otherwise
HandlerReturn ==
    /\ hStatus = "fetched"
    /\ batch_no = NumBatches(Len(fetched_logs))
    /\ hStatus' = "200"
    /\ UNCHANGED <<s3_file, fetched_logs, batch_no, batch_results,
                   analysis_table,
                   sigVars, anVars, aggVars, decVars, filVars, madVars,
                   permVars, bwVars, ccVars>>

HdlNext == HandlerFetch \/ HandlerBatch \/ HandlerReturn

SpecHandler == HdlInit /\ [][HdlNext]_vars

----------------------------------------------------------------------------
(* mad_model.py: MADModel.is_burst_anomaly called for two new intervals on  *)
(* one history of intervals                                                 *)

MaxMadHist == 3

\* historical intervals of 0.9, 1 and 1.1 hours
MadHistIntervals == {UnitsPerHour - 10, UnitsPerHour, UnitsPerHour + 10}

\* new intervals on both sides of 0.1 h, of the median and of the z-score
\* threshold that these histories give
MadNewIntervals ==
    {0, 9, 10, 11, 38, 39, 47, 48, 49, 89, 90, 99, 100, 101, 110, 152, 200}

\* an interval so long that the numbers next to it are within the relative
\* tolerance of math.isclose, and the new intervals around it
LongInterval == RelTolInv + RelTolInv \div 20

LongNewIntervals == {LongInterval + d : d \in {0 - 3, 0 - 2, 0 - 1, 0, 1}}

\* histories of two or more intervals that are all LongInterval
LongHistories ==
    {[i \in 1..n |-> LongInterval] : n \in 2..MaxMadHist}

MadInit ==
    /\ SigIdle /\ AnIdle /\ AggIdle /\ DecIdle /\ FilIdle /\ HdlIdle /\ RestIdle
    /\ \/ /\ mad_history \in SeqsUpTo(MadHistIntervals, MaxMadHist)
          /\ mad_x \in MadNewIntervals
          /\ mad_y \in MadNewIntervals
       \/ /\ mad_history \in LongHistories
          /\ mad_x \in LongNewIntervals
          /\ mad_y \in LongNewIntervals
    /\ mad_at_x = FALSE /\ mad_at_y = FALSE
    /\ madPc = "start"

MadTestX ==
    /\ madPc = "start"
    /\ mad_at_x' = is_burst_anomaly(mad_x, mad_history)
    /\ madPc' = "x"
    /\ UNCHANGED <<mad_history, mad_x, mad_y, mad_at_y,
                   sigVars, anVars, aggVars, decVars, filVars, hdlVars,
                   permVars, bwVars, ccVars>>

MadTestY ==
    /\ madPc = "x"
    /\ mad_at_y' = is_burst_anomaly(mad_y, mad_history)
    /\ madPc' = "done"
    /\ UNCHANGED <<mad_history, mad_x, mad_y, mad_at_x,
                   sigVars, anVars, aggVars, decVars, filVars, hdlVars,
                   permVars, bwVars, ccVars>>

MadNext == MadTestX \/ MadTestY

SpecMad == MadInit /\ [][MadNext]_vars

----------------------------------------------------------------------------
(* permutation_model.py: one call of has_burst_pattern_emerged              *)

N_PERMUTATIONS == 1000

\* how often the call runs random.shuffle (line 58): not at all when it
\* returns at line 30, 42 or 51, N_PERMUTATIONS times otherwise
shuffles_run(historical_intervals) ==
    LET n == Len(historical_intervals)
        recent_window_size == Max(MIN_SAMPLE_SIZE, n \div 4)
    IN  IF n < recent_window_size + MIN_SAMPLE_SIZE THEN 0
        ELSE LET recent_sample ==
                     SubSeq(historical_intervals, n - recent_window_size + 1, n)
                 historical_sample ==
                     SubSeq(historical_intervals, 1, n - recent_window_size)
             IN  IF Sum(recent_sample) * Len(historical_sample)
                        >= Sum(historical_sample) * Len(recent_sample)
                 THEN 0
                 ELSE N_PERMUTATIONS

MaxPermLen == 10

\* intervals of 0.1 h and of 1 h
PermIntervals == {UnitsPerHour \div 10, UnitsPerHour}

\* lengths at which the recent window is MIN_SAMPLE_SIZE and at which it is
\* a quarter of the list
PermBlockSizes == {2 * MIN_SAMPLE_SIZE + 1, 6 * MIN_SAMPLE_SIZE}

\* a list of n intervals a of which the last k are b instead
TwoBlocks(n, k, a, b) == [i \in 1..n |-> IF i <= n - k THEN a ELSE b]

PermLists ==
    SeqsUpTo(PermIntervals, MaxPermLen)
    \cup {TwoBlocks(n, k, a, b) :
             n \in PermBlockSizes, k \in 0..(3 * MIN_SAMPLE_SIZE),
             a \in PermIntervals, b \in PermIntervals}

PermInit ==
    /\ SigIdle /\ AnIdle /\ AggIdle /\ DecIdle /\ FilIdle /\ HdlIdle /\ MadIdle
    /\ BwIdle /\ CcIdle
    /\ perm_intervals \in PermLists
    /\ perm_shuffles = 0
    /\ perm_burst = FALSE
    /\ permPc = "start"

\* the call; significant is what the shuffles make of the p-value
PermTest ==
    /\ permPc = "start"
    /\ \E significant \in BOOLEAN :
          perm_burst' = has_burst_pattern_emerged(perm_intervals, significant)
    /\ perm_shuffles' = shuffles_run(perm_intervals)
    /\ permPc' = "done"
    /\ UNCHANGED <<perm_intervals, sigVars, anVars, aggVars, decVars, filVars,
                   hdlVars, madVars, bwVars, ccVars>>

PermNext == PermTest

SpecPerm == PermInit /\ [][PermNext]_vars

----------------------------------------------------------------------------
(* alert_stats.py: should_alert up to the end of the training of its HMM.   *)
(* _learn_hmm_parameters (lines 23-105) runs the same loop as               *)
(* HMMModel._learn_parameters (hmm_model.py, lines 137-156); whether the    *)
(* change of an iteration is below the tolerance is a matter of floating    *)
(* point and an input of the model.                                         *)

max_iterations == 10

BwInit ==
    /\ SigIdle /\ AnIdle /\ AggIdle /\ DecIdle /\ FilIdle /\ HdlIdle /\ MadIdle
    /\ PermIdle /\ CcIdle
    /\ bw_timestamps \in 0..MaxHist
    /\ bw_intervals = NoneCount
    /\ bw_iteration = 0
    /\ bwPc = "start"

\* lines 152-175: below TRUST_THRESHOLD timestamps the heuristics decide;
\* from there on the HMM is trained on the n - 1 intervals between the
\* sorted timestamps
BwGate ==
    /\ bwPc = "start"
    /\ IF bw_timestamps < TRUST_THRESHOLD
       THEN bwPc' = "heuristic" /\ bw_intervals' = bw_intervals
       ELSE bwPc' = "training" /\ bw_intervals' = bw_timestamps - 1
    /\ UNCHANGED <<bw_timestamps, bw_iteration, sigVars, anVars, aggVars,
                   decVars, filVars, hdlVars, madVars, permVars, ccVars>>

\* BwIteration with a slip: the loop is not held to max_iterations
BwIteration_Uncapped ==
    /\ bwPc = "training"
    /\ bw_iteration < max_iterations + 2
    /\ \E change_below \in BOOLEAN :
          bwPc' = IF change_below THEN "converged" ELSE "training"
    /\ bw_iteration' = bw_iteration + 1
    /\ UNCHANGED <<bw_timestamps, bw_intervals, sigVars, anVars, aggVars,
                   decVars, filVars, hdlVars, madVars, permVars, ccVars>>

\* lines 38-102: one turn of `for iteration in range(max_iterations)`: break
\* when change < tolerance, the else of the loop after the last turn
BwIteration ==
    /\ bwPc = "training"
    /\ bw_iteration < max_iterations
    /\ \E change_below \in BOOLEAN :
          bwPc' = IF change_below THEN "converged"
                  ELSE IF bw_iteration + 1 = max_iterations THEN "capped"
                  ELSE "training"
    /\ bw_iteration' = bw_iteration + 1
    /\ UNCHANGED <<bw_timestamps, bw_intervals, sigVars, anVars, aggVars,
                   decVars, filVars, hdlVars, madVars, permVars, ccVars>>

BwNext == BwGate \/ BwIteration

\* the loop runs in one thread with nothing to wait for
SpecBw == BwInit /\ [][BwNext]_vars /\ WF_vars(BwNext)

\* ---------------------------------------------------------------------
\* Two invocations of filter_alert on the same signature, sharing the
\* history table.  The table's key is (signature, timestamp), so the table
\* is a set of such items; the ttl attribute is not part of the key and is
\* left out.  Each invocation queries the partition, decides on the
\* snapshot without touching the table, and puts one item per timestamp of
\* its cluster; the other invocation may run between any two of these
\* calls.
\* ---------------------------------------------------------------------

Invocations == {1, 2}

SharedSignature == "ERROR: a"

MaxCcBatch == 2

CcStamps == {1, 2, 3}

\* the timestamps lists a cluster of the shared signature may carry
CcBatches == UNION {[1..n -> CcStamps] : n \in 1..MaxCcBatch}

\* the item put_item writes for one timestamp
HistoryItem(signature, ts) == [signature |-> signature, timestamp |-> ts]

\* what the query of a partition returns
QueryPartition(table, signature) ==
    {item.timestamp : item \in {it \in table : it.signature = signature}}

CcInit ==
    /\ cc_table \in SUBSET {HistoryItem(SharedSignature, ts) : ts \in {1, 2}}
    /\ cc_cluster \in [Invocations ->
          {[signature |-> SharedSignature, timestamps |-> b] : b \in CcBatches}]
    /\ cc_read = [p \in Invocations |-> {}]
    /\ cc_put = [p \in Invocations |-> 0]
    /\ ccPc = [p \in Invocations |-> "read"]
    /\ SigIdle /\ AnIdle /\ AggIdle /\ DecIdle /\ FilIdle /\ HdlIdle
    /\ MadIdle /\ PermIdle /\ BwIdle

\* get_historical_data_for_cluster of one invocation: the snapshot, or []
\* when the query raises ClientError
CcQuery(p) ==
    /\ ccPc[p] = "read"
    /\ \E query \in {"ok", "ClientError"} :
          cc_read' = [cc_read EXCEPT ![p] =
              IF query = "ok"
              THEN QueryPartition(cc_table, cc_cluster[p].signature)
              ELSE {}]
    /\ ccPc' = [ccPc EXCEPT ![p] = "write"]
    /\ UNCHANGED <<cc_table, cc_cluster, cc_put>>
    /\ UNCHANGED <<sigVars, anVars, aggVars, decVars, filVars, hdlVars,
                   madVars, permVars, bwVars>>

\* a put that rebuilds the partition from the invocation's snapshot
CcPutItem_ReplacesPartition(p) ==
    /\ ccPc[p] = "write"
    /\ \E put \in {"ok", "ClientError"} :
          IF put = "ok"
          THEN /\ cc_table' =
                    {HistoryItem(cc_cluster[p].signature, ts) : ts \in cc_read[p]}
                    \cup {HistoryItem(cc_cluster[p].signature,
                                      cc_cluster[p].timestamps[cc_put[p] + 1])}
               /\ cc_put' = [cc_put EXCEPT ![p] = @ + 1]
               /\ ccPc' = [ccPc EXCEPT ![p] =
                      IF cc_put[p] + 1 = Len(cc_cluster[p].timestamps)
                      THEN "done" ELSE "write"]
          ELSE /\ ccPc' = [ccPc EXCEPT ![p] = "failed"]
               /\ UNCHANGED <<cc_table, cc_put>>
    /\ UNCHANGED <<cc_cluster, cc_read>>
    /\ UNCHANGED <<sigVars, anVars, aggVars, decVars, filVars, hdlVars,
                   madVars, permVars, bwVars>>

\* one put_item of update_history_with_individual_events: the item of the
\* next timestamp is added under its key, or the write raises ClientError,
\* which ends the write with the items put so far
CcPutItem(p) ==
    /\ ccPc[p] = "write"
    /\ \E put \in {"ok", "ClientError"} :
          IF put = "ok"
          THEN /\ cc_table' = cc_table \cup
                    {HistoryItem(cc_cluster[p].signature,
                                 cc_cluster[p].timestamps[cc_put[p] + 1])}
               /\ cc_put' = [cc_put EXCEPT ![p] = @ + 1]
               /\ ccPc' = [ccPc EXCEPT ![p] =
                      IF cc_put[p] + 1 = Len(cc_cluster[p].timestamps)
                      THEN "done" ELSE "write"]
          ELSE /\ ccPc' = [ccPc EXCEPT ![p] = "failed"]
               /\ UNCHANGED <<cc_table, cc_put>>
    /\ UNCHANGED <<cc_cluster, cc_read>>
    /\ UNCHANGED <<sigVars, anVars, aggVars, decVars, filVars, hdlVars,
                   madVars, permVars, bwVars>>

CcNext == \E p \in Invocations : CcQuery(p) \/ CcPutItem(p)

SpecCc == CcInit /\ [][CcNext]_vars

----------------------------------------------------------------------------
(* Claims *)

RECURSIVE SumCounts(_)
SumCounts(clusters) ==
    IF clusters = <<>> THEN 0 ELSE Head(clusters).count + SumCounts(Tail(clusters))

\* the summed count of the clusters of a list that carry signature sg
CountOf(clusters, sg) ==
    SumCounts(SelectSeq(clusters, LAMBDA c : c.signature = sg))

SignaturesOf(clusters) == {clusters[i].signature : i \in 1..Len(clusters)}

\* C1: two lines that differ only in tokens normalization replaces (integer
\* runs, hex literals, IPv4 addresses, UUIDs) or in a trailing JSON object
\* get the same signature.
C1_SameSignature ==
    sigPc \in {"direct", "clusterer"} => sig1 = sig2

\* C2: the counts of the clusters cluster_logs returns add up to the number
\* of input lines with a non-empty signature, and every cluster's count is
\* the number of lines stored in it.
C2_CountInvariant ==
    anPc \in {"analysed", "aggregated"} =>
        /\ SumCounts(anaAll.clusters) =
             Cardinality({i \in 1..Len(rawLogs) : extract_signature(rawLogs[i]) # EmptySig})
        /\ \A i \in 1..Len(anaAll.clusters) :
             anaAll.clusters[i].count = Len(anaAll.clusters[i].log_samples)

\* C2 witness: a clustered input with a line that has no signature and a
\* cluster of more than one line
C2_Witness ==
    /\ anPc = "analysed"
    /\ \E i \in 1..Len(rawLogs) : extract_signature(rawLogs[i]) = EmptySig
    /\ \E i \in 1..Len(anaAll.clusters) : anaAll.clusters[i].count >= 2

\* C4: for every signature, the digest of the analyses of batch A and of
\* batch B has the count the analysis of the undivided input has.
C4_MergeLaw ==
    anPc = "aggregated" =>
        \A sg \in SignaturesOf(digestAB.clusters) \cup SignaturesOf(anaAll.clusters) :
            CountOf(digestAB.clusters, sg) = CountOf(anaAll.clusters, sg)

\* C4 witness: a signature that occurs in both batches has been merged
C4_Witness ==
    /\ anPc = "aggregated"
    /\ \E sg \in SignaturesOf(anaA.clusters) : sg \in SignaturesOf(anaB.clusters)

RECURSIVE InputCount(_, _, _)
\* the summed count of the clusters with signature sg in the records of recs
\* whose index is not in skip
InputCount(recs, skip, sg) ==
    IF recs = <<>> THEN 0
    ELSE LET last == recs[Len(recs)]
         IN  InputCount(SubSeq(recs, 1, Len(recs) - 1), skip, sg)
             + (IF Len(recs) \in skip THEN 0 ELSE CountOf(last.result.clusters, sg))

MergedSignatures ==
    UNION {SignaturesOf(sqsRecords[i].result.clusters) :
             i \in (1..Len(sqsRecords)) \ skipped} \ {EmptySig}

\* C3: in the digest every signature of the merged results appears in
\* exactly one cluster, whose count is the sum of the counts of all input
\* clusters with that signature.
C3_MergedCounts ==
    digest # Null =>
        /\ SignaturesOf(digest.clusters) = MergedSignatures
        /\ \A i, j \in 1..Len(digest.clusters) :
             digest.clusters[i].signature = digest.clusters[j].signature => i = j
        /\ \A i \in 1..Len(digest.clusters) :
             digest.clusters[i].count =
                InputCount(sqsRecords, skipped, digest.clusters[i].signature)

\* C3 witness: two results that each hold ("ERROR: X", 3) have been merged
\* into one cluster ("ERROR: X", 6)
C3_Witness ==
    /\ digest # Null
    /\ Len(sqsRecords) = 2 /\ skipped = {}
    /\ \A i \in 1..2 : sqsRecords[i].result = ResultX
    /\ Len(digest.clusters) = 1
    /\ digest.clusters[1].signature = SigX /\ digest.clusters[1].count = 6

----------------------------------------------------------------------------
(* Claims about one decision of the filter.  The event a call decides on   *)
(* is taken to happen at the time of the call (lines 165 and 185): the     *)
(* newest interval runs from the newest event of the history to now, and   *)
(* the intervals of the decision are those of the history and that one.    *)

SortedHistory == SortAsc(historical_timestamps)

HistoricalIntervals == Intervals(SortedHistory)

NewInterval == now - SortedHistory[Len(SortedHistory)]

AllIntervals == HistoricalIntervals \o <<NewInterval>>

\* MADModel.is_burst_anomaly on the newest interval against the earlier ones
MadFlagsBurst == is_burst_anomaly(NewInterval, HistoricalIntervals)

Decided == decPc = "decided" /\ historical_timestamps # <<>>

\* C6: whenever the MAD model flags the newest interval as a burst against
\* the preceding intervals, the decision is to alert, however many
\* intervals there are; the HMM cannot turn it into a suppression.
C6_MadBurstAlerts ==
    (Decided /\ MadFlagsBurst) => decision.alert

\* C7: with fewer than 20 intervals and no burst flagged by MAD the decision
\* is not to alert, and neither the HMM nor the permutation test is run.
C7_LowDataMadNegative ==
    (Decided /\ Len(AllIntervals) < 20 /\ ~MadFlagsBurst)
        => /\ ~decision.alert
           /\ decision.consulted \cap {"HMM", "PERM"} = {}

\* C8: with 20 to 39 intervals and no burst flagged by MAD the decision is
\* to alert exactly when the HMM predicts BURST and the permutation test
\* confirms, for some outcome the shuffles of the test can have; the
\* permutation test runs only after the HMM has predicted BURST.
C8_ZoneTwoNeedsPermutation ==
    (Decided /\ Len(AllIntervals) >= 20 /\ Len(AllIntervals) < 40
             /\ ~MadFlagsBurst)
        => /\ \E significant \in BOOLEAN :
                 decision.alert <=>
                     (/\ decision.hmm = "BURST"
                      /\ has_burst_pattern_emerged(AllIntervals, significant))
           /\ "PERM" \in decision.consulted => decision.hmm = "BURST"

\* C9: with at least 40 intervals and no burst flagged by MAD the decision
\* is to alert exactly when the HMM's final state is BURST, and the
\* permutation test is not run.
C9_ZoneThreeHmmDecides ==
    (Decided /\ Len(AllIntervals) >= 40 /\ ~MadFlagsBurst)
        => /\ decision.alert <=> decision.hmm = "BURST"
           /\ "PERM" \notin decision.consulted

C9_Witness ==
    /\ Decided /\ Len(AllIntervals) >= 40 /\ ~MadFlagsBurst
    /\ decision.alert /\ decision.hmm = "BURST"

----------------------------------------------------------------------------
(* Claims about filter_alert *)

DecisionsMade == {decisions[i] : i \in 1..Len(decisions)}

\* the timestamps of the events of the batch for the cluster of a decision
CurrentTimestamps(d) == new_image.clusters[d.cluster].timestamps

\* C5: a cluster whose historical and current timestamps together are fewer
\* than 2 is decided alert=true (first event sequence), and no statistical
\* model is consulted for it.
C5_FirstEventSequence ==
    \A d \in DecisionsMade :
        Len(d.historical_data) + Len(CurrentTimestamps(d)) < 2
            => d.alert /\ d.consulted = {}

\* the input clusters whose decision is to alert, in the order of the input
AlertedClusters ==
    LET alerted == SelectSeq(decisions, LAMBDA d : d.alert)
    IN  [j \in 1..Len(alerted) |-> new_image.clusters[alerted[j].cluster]]

\* C10: the clusters the filter emits are exactly the input clusters whose
\* decision is alert=true: none with alert=false is emitted, none with
\* alert=true is dropped, in the rebuilt result and in what is published.
C10_ExactlyAlerted ==
    /\ filPc \in {"rebuilt", "done"} =>
            filtered_result.clusters = AlertedClusters
    /\ \A i \in 1..Len(alerts_topic) :
            alerts_topic[i].clusters = AlertedClusters

C10_Witness ==
    /\ filPc = "done"
    /\ alerts_topic # <<>>
    /\ \E d \in DecisionsMade : d.alert
    /\ \E d \in DecisionsMade : ~d.alert


\* the key the emitted clusters are said to be ordered by
RankTimesCount(cluster) == LevelRank(cluster.signature.lvl) * cluster.count

\* C11: the clusters of the result filter_alert returns are ordered by
\* level_rank x count, descending
C11_OrderedByRankTimesCount ==
    filPc \in {"rebuilt", "done"} =>
        \A i \in 1..Len(filtered_result.clusters) :
            \A j \in i..Len(filtered_result.clusters) :
                RankTimesCount(filtered_result.clusters[i]) >=
                    RankTimesCount(filtered_result.clusters[j])


\* C12: the clusters of the digest merge_analysis_results returns are in
\* descending order of count, the count being the sum over the merged results
C12_DigestSortedByMergedCount ==
    digest # Null =>
        \A i \in 1..Len(digest.clusters) :
            \A j \in i..Len(digest.clusters) :
                /\ digest.clusters[i].count >= digest.clusters[j].count
                /\ InputCount(sqsRecords, skipped, digest.clusters[i].signature)
                     >= InputCount(sqsRecords, skipped, digest.clusters[j].signature)

\* C12 witness: "ERROR" was merged before "ERROR: X", and the summed count of
\* "ERROR: X" has put it in front
C12_Witness ==
    /\ digest # Null
    /\ Len(sqsRecords) = 2 /\ skipped = {}
    /\ sqsRecords[1].result = ResultYX /\ sqsRecords[2].result = ResultX
    /\ Len(digest.clusters) = 2
    /\ digest.clusters[1].signature = SigX /\ digest.clusters[1].count = 4
    /\ digest.clusters[2].signature = SigY /\ digest.clusters[2].count = 2


\* the place in raw_logs of the first line with signature sg
FirstSeen(raw_logs, sg) ==
    CHOOSE i \in 1..Len(raw_logs) :
        /\ extract_signature(raw_logs[i]) = sg
        /\ \A k \in 1..(i - 1) : extract_signature(raw_logs[k]) # sg

\* clusters are in descending order of count, and those of one count in the
\* order in which raw_logs first shows their signatures
CountThenFirstSeen(clusters, raw_logs) ==
    \A i \in 1..Len(clusters) :
        \A j \in (i + 1)..Len(clusters) :
            \/ clusters[i].count > clusters[j].count
            \/ /\ clusters[i].count = clusters[j].count
               /\ FirstSeen(raw_logs, clusters[i].signature)
                    < FirstSeen(raw_logs, clusters[j].signature)

\* C13: cluster_logs returns its clusters by count descending, clusters of
\* equal count in the order in which their signatures were first seen
C13_CountDescFirstSeen ==
    anPc \in {"analysed", "aggregated"} =>
        /\ CountThenFirstSeen(anaAll.clusters, rawLogs)
        /\ CountThenFirstSeen(anaA.clusters, Select(rawLogs, inA, TRUE))
        /\ CountThenFirstSeen(anaB.clusters, Select(rawLogs, inA, FALSE))

\* C13 witness: three lines of two signatures; the signature seen second has
\* the larger count in the whole input, and the two tie in batch A
C13_Witness ==
    /\ anPc = "analysed"
    /\ Len(rawLogs) = 3
    /\ Len(anaAll.clusters) = 2
    /\ anaAll.clusters[1].count = 2 /\ anaAll.clusters[2].count = 1
    /\ FirstSeen(rawLogs, anaAll.clusters[1].signature) = 2
    /\ Len(anaA.clusters) = 2
    /\ anaA.clusters[1].count = anaA.clusters[2].count


\* C14: lines below the severity floor are not clustered: cluster_logs on
\* lines that are all of level INFO or DEBUG returns no cluster
C14_BelowFloorNotClustered ==
    anPc \in {"analysed", "aggregated"} =>
        ((\A i \in 1..Len(rawLogs) : rawLogs[i].lvl \in {"INFO", "DEBUG"})
            => anaAll.clusters = <<>>)


\* the records of the invocation that decode to an analysis result with all
\* its keys
DecodedRecords ==
    {i \in 1..Len(sqsRecords) :
        /\ sqsRecords[i].decodes /\ sqsRecords[i].isObject
        /\ sqsRecords[i].hasId}

\* C15: however many records fail to decode and wherever they stand, the
\* aggregator returns a digest, and the digest holds the clusters of every
\* record that decodes
C15_BadRecordNeverAborts ==
    (aggStatus \in {"200", "raised"} /\ sqsRecords # <<>>) =>
        /\ digest # Null
        /\ \A i \in DecodedRecords :
              SignaturesOf(sqsRecords[i].result.clusters) \ {EmptySig}
                  \subseteq SignaturesOf(digest.clusters)


\* C16: when publishing the filtered result to the alert sink fails, the
\* invocation of the handler does not complete as a success
C16_PublishFailureSurfaced ==
    (filPc = "done" /\ publish_raised) => filStatus # "200"


\* C17: when fetching the raw log batch fails, the handler does not report
\* success, and no analysis result is produced or persisted
C17_FetchFailureSurfaced ==
    (hStatus \in {"200", "raised"} /\ s3_file # Null /\ ~s3_file.ok) =>
        /\ hStatus # "200"
        /\ batch_results = <<>>
        /\ analysis_table = <<>>


\* the number of lines of the k-th result of the invocation
SizeOfResult(k) == batch_results[k].total_logs_processed

\* the place in fetched_logs of the first line of the k-th result, each
\* result taking up the lines after those of the results before it
RECURSIVE StartOfResult(_)
StartOfResult(k) ==
    IF k = 1 THEN 1 ELSE StartOfResult(k - 1) + SizeOfResult(k - 1)

\* the results so far are those of consecutive pieces of fetched_logs, in
\* order, each persisted as its own item; every piece has batch_size lines
\* unless it is the last one of the input
SequentialSubBatches ==
    /\ Len(batch_results) = batch_no
    /\ analysis_table = batch_results
    /\ \A k \in 1..Len(batch_results) :
        /\ SizeOfResult(k) >= 1
        /\ StartOfResult(k) + SizeOfResult(k) - 1 <= Len(fetched_logs)
        /\ \/ SizeOfResult(k) = batch_size
           \/ /\ SizeOfResult(k) < batch_size
              /\ StartOfResult(k) + SizeOfResult(k) - 1 = Len(fetched_logs)
        /\ batch_results[k].clusters =
              cluster_logs(SubSeq(fetched_logs, StartOfResult(k),
                                  StartOfResult(k) + SizeOfResult(k) - 1))
        /\ \A m \in 1..(k - 1) :
              batch_results[m].analysis_id # batch_results[k].analysis_id

\* every line of fetched_logs is in one of the pieces
EveryLineInOneSubBatch ==
    Sum([k \in 1..Len(batch_results) |-> SizeOfResult(k)]) = Len(fetched_logs)

\* C18: a fetched batch of more than batch_size lines is split into
\* consecutive sub-batches of batch_size lines, the last one holding the
\* lines that remain; they are processed in input order, each gives its
\* own analysis result, and every line is in exactly one sub-batch
C18_SplitWithRemainder ==
    (hStatus \in {"fetched", "200", "raised"}
        /\ Len(fetched_logs) > batch_size) =>
        /\ SequentialSubBatches
        /\ hStatus = "200" => EveryLineInOneSubBatch

\* C18 witness: an input whose length is no multiple of batch_size has been
\* processed to the end
C18_Witness ==
    /\ hStatus = "200"
    /\ Len(fetched_logs) > batch_size
    /\ Len(fetched_logs) % batch_size # 0
    /\ Len(batch_results) >= 2
    /\ SizeOfResult(Len(batch_results)) < batch_size

\* C18 as stated: the sub-batches of such a batch are of equal size
C18_EqualSizedSubBatches ==
    (hStatus = "200" /\ Len(fetched_logs) > batch_size) =>
        /\ EveryLineInOneSubBatch
        /\ \A k \in 1..Len(batch_results) : SizeOfResult(k) = SizeOfResult(1)


\* C19: a batch without log lines gives one empty analysis result: no
\* clusters, total_clusters_found 0 and total_logs_processed 0
C19_EmptyBatchEmptyResult ==
    (hStatus = "200" /\ s3_file # Null /\ s3_file.ok
        /\ \A i \in 1..Len(s3_file.lines) : s3_file.lines[i] = BlankLine) =>
        /\ Len(batch_results) = 1
        /\ batch_results[1].clusters = <<>>
        /\ batch_results[1].total_clusters_found = 0
        /\ batch_results[1].total_logs_processed = 0


\* C20: on one history of intervals, if is_burst_anomaly is true of the new
\* interval x it is true of every new interval below x
C20_MadMonotone ==
    (madPc = "done" /\ mad_at_x /\ mad_y < mad_x) => mad_at_y

\* C20 witness: the z-score branch (at least two intervals, MAD not zero)
\* has fired for x and for a smaller new interval
C20_Witness ==
    /\ madPc = "done"
    /\ Len(mad_history) >= 2 /\ Mad4(mad_history) # 0
    /\ mad_at_x /\ mad_y < mad_x /\ mad_at_y


\* a history the MAD test decides by its branch for MAD 0
MadZeroHistory == Len(mad_history) >= 2 /\ Mad4(mad_history) = 0

\* C21: with at least two intervals and MAD 0 the test returns burst
\* exactly when the new interval is below the median by more than the
\* relative tolerance 1e-09 of the median; a new interval equal to the
\* median is not a burst
C21_MadZeroBelowMedianBeyondTolerance ==
    (madPc \in {"x", "done"} /\ MadZeroHistory) =>
        /\ mad_at_x <=>
              (Median2(mad_history) - 2 * mad_x
                   > Median2(mad_history) \div RelTolInv)
        /\ 2 * mad_x = Median2(mad_history) => ~mad_at_x

\* C21 witness: the MAD is 0, and of two new intervals below the median the
\* one within the tolerance is no burst and the other one is
C21_Witness ==
    /\ madPc = "done" /\ MadZeroHistory
    /\ 2 * mad_x < Median2(mad_history) /\ ~mad_at_x
    /\ 2 * mad_y < Median2(mad_history) /\ mad_at_y

\* C21 as stated: with MAD 0 the test returns burst exactly when the new
\* interval is strictly less than the median
C21_MadZeroStrictlyBelowMedian ==
    (madPc \in {"x", "done"} /\ MadZeroHistory) =>
        (mad_at_x <=> 2 * mad_x < Median2(mad_history))


\* the recent sub-window of a list of intervals and the intervals before it
RecentWindow(xs) ==
    SubSeq(xs, Len(xs) - Max(MIN_SAMPLE_SIZE, Len(xs) \div 4) + 1, Len(xs))

PrecedingIntervals(xs) ==
    SubSeq(xs, 1, Len(xs) - Max(MIN_SAMPLE_SIZE, Len(xs) \div 4))

\* mean(recent) >= mean(preceding), both being defined
RecentMeanNotLower(xs) ==
    /\ Len(xs) > Max(MIN_SAMPLE_SIZE, Len(xs) \div 4)
    /\ Sum(RecentWindow(xs)) * Len(PrecedingIntervals(xs))
          >= Sum(PrecedingIntervals(xs)) * Len(RecentWindow(xs))

\* C22: whenever the mean of the recent sub-window is not below the mean of
\* the intervals before it, the permutation test returns false and has run
\* no shuffle
C22_NoBurstWithoutLowerRecentMean ==
    (permPc = "done" /\ RecentMeanNotLower(perm_intervals)) =>
        /\ ~perm_burst
        /\ perm_shuffles = 0

\* C22 witness: a list long enough for the test, with equal means in the
\* two samples, has been tested
C22_Witness ==
    /\ permPc = "done"
    /\ Len(perm_intervals) >= 2 * MIN_SAMPLE_SIZE
    /\ RecentMeanNotLower(perm_intervals)
    /\ ~perm_burst /\ perm_shuffles = 0


BwTrained == bwPc \in {"training", "converged", "capped"}

\* the training is over
BwStopped == bwPc \in {"converged", "capped"}

\* C23: the training of the HMM always ends: at the first iteration whose
\* change is below the tolerance, and else after exactly max_iterations
\* iterations; through should_alert it is never given fewer than
\* TRUST_THRESHOLD - 1 intervals
C23_TrainingTerminates ==
    /\ [](BwTrained => /\ bw_intervals >= TRUST_THRESHOLD - 1
                       /\ bw_iteration <= max_iterations)
    /\ [](bwPc = "training" => bw_iteration < max_iterations)
    /\ [](bwPc = "capped" => bw_iteration = max_iterations)
    /\ [](bwPc = "converged" => bw_iteration \in 1..max_iterations)
    /\ [][BwStopped => UNCHANGED <<bw_iteration, bwPc>>]_vars
    /\ (bwPc = "training" ~> BwStopped)

\* C23 witness: trained on the fewest intervals should_alert passes, the
\* loop has converged before its last turn
C23_Witness ==
    /\ bwPc = "converged"
    /\ bw_timestamps = TRUST_THRESHOLD
    /\ bw_intervals = TRUST_THRESHOLD - 1
    /\ bw_iteration < max_iterations

\* C23 as stated: the training is never given fewer than TRUST_THRESHOLD
\* intervals
C23_TrainedOnTwentyIntervals ==
    BwTrained => bw_intervals >= TRUST_THRESHOLD


\* the places in the record of the invocation of the operations of one kind
OpsOf(kind) == {i \in 1..Len(history_ops) : history_ops[i].op = kind}

\* C24: an invocation of the filter reads the history once, before any
\* decision, and writes it once, after the last decision; no write comes
\* before a read
C24_OneReadOneWrite ==
    (filPc \in {"rebuilt", "done"} /\ decisions # <<>>) =>
        /\ Cardinality(OpsOf("read")) = 1
        /\ Cardinality(OpsOf("write")) <= 1
        /\ \A r \in OpsOf("read"), d \in OpsOf("decide") : r < d
        /\ \A w \in OpsOf("write"), d \in OpsOf("decide") : d < w
        /\ \A w \in OpsOf("write"), r \in OpsOf("read") : r < w


\* the operations of one kind that did not return
FailedOps(kind) == {i \in OpsOf(kind) : history_ops[i].outcome # "ok"}

\* the invocation is over, by a return of filter_alert or by an exception
FilterEnded == filPc \in {"done", "aborted"}

\* C25: a history write that fails, in whatever way, does not keep the
\* filtered result with its actionable clusters from being published
C25_WriteFailureDoesNotBlockPublishing ==
    (FilterEnded /\ FailedOps("write") # {} /\ AlertedClusters # <<>>
        /\ ~publish_raised) =>
        /\ alerts_topic # <<>>
        /\ alerts_topic[1].clusters = AlertedClusters

\* the clusters of the input the loop does not pass over
DecidableClusters ==
    {k \in 1..Len(new_image.clusters) :
        /\ new_image.clusters[k].signature # EmptySig
        /\ new_image.clusters[k].count # NoneCount}

\* C26: a history read that fails counts as an empty history of its
\* signature alone: the signature is decided on the empty history, and the
\* signatures after it are decided as well
C26_ReadFailureIsEmptyHistory ==
    FilterEnded =>
        \A r \in FailedOps("read") :
            /\ \E d \in DecisionsMade :
                  /\ d.cluster = history_ops[r].cluster
                  /\ d.historical_data = <<>>
            /\ \A k \in DecidableClusters :
                  k > history_ops[r].cluster =>
                      \E d \in DecisionsMade : d.cluster = k


\* the timestamps an invocation has put so far
PutBy(p) == {cc_cluster[p].timestamps[i] : i \in 1..cc_put[p]}

\* C27: when two invocations interleave their read-then-write on the same
\* signature, no timestamp is lost: what either has put and what either
\* has read stays in the table, and once both have completed their writes
\* the table holds every timestamp of both batches
C27_NoTimestampLost ==
    /\ \A p \in Invocations :
          /\ PutBy(p) \subseteq QueryPartition(cc_table, SharedSignature)
          /\ cc_read[p] \subseteq QueryPartition(cc_table, SharedSignature)
    /\ (\A p \in Invocations : ccPc[p] = "done") =>
          \A p \in Invocations : \A i \in 1..Len(cc_cluster[p].timestamps) :
              cc_cluster[p].timestamps[i]
                  \in QueryPartition(cc_table, SharedSignature)

\* both invocations read the stored history before either wrote, wrote
\* different batches with a timestamp in common, and completed
C27_Witness ==
    /\ \A p \in Invocations : ccPc[p] = "done"
    /\ cc_read[1] = cc_read[2] /\ cc_read[1] # {}
    /\ \A p \in Invocations : PutBy(p) \cap cc_read[3 - p] = {}
    /\ PutBy(1) # PutBy(2)
    /\ PutBy(1) \cap PutBy(2) # {}


RECURSIVE WithoutSkipped(_, _)
\* the records of recs whose index is not in skip, in their order
WithoutSkipped(recs, skip) ==
    IF recs = <<>> THEN <<>>
    ELSE LET front == WithoutSkipped(SubSeq(recs, 1, Len(recs) - 1), skip)
         IN  IF Len(recs) \in skip THEN front
             ELSE Append(front, recs[Len(recs)])

\* C28: a record the aggregator skips contributes nothing: the digest's
\* total_logs_processed, analysis_id, summaries and clusters with their
\* counts are those of the same input without the skipped records
C28_SkippedRecordContributesNothing ==
    (digest # Null /\ skipped # {}) =>
        \E synthesized \in BOOLEAN :
            digest = merge_analysis_results(WithoutSkipped(sqsRecords, skipped),
                                            synthesized)


\* the stored timestamps of the signature of the input's k-th cluster
StoredFor(k) == ItemsOf(history_table, new_image.clusters[k].signature)

\* C29: after a filter invocation the history table holds the timestamp of
\* every event of every cluster of the input, alerted or suppressed: for
\* each cluster that counts events the invocation has written to the
\* table, and each of the cluster's timestamps is stored under its
\* signature
C29_EveryEventTimestampStored ==
    (filPc \in {"rebuilt", "done", "aborted"}) =>
        \A k \in 1..Len(new_image.clusters) :
            new_image.clusters[k].count > 0 =>
                /\ \E w \in OpsOf("write") :
                      /\ history_ops[w].cluster = k
                      /\ history_ops[w].outcome = "ok"
                /\ \A i \in 1..Len(new_image.clusters[k].timestamps) :
                      new_image.clusters[k].timestamps[i] \in StoredFor(k)


\* the invocation of the aggregator handler is over
AggEnded == aggStatus \in {"200", "500", "raised"}

\* C30: an invocation of the aggregator handler publishes at most once,
\* and not at all when the event has no records or the digest has no
\* clusters; what it publishes is the one digest of the records that
\* decode, with nothing of the records it skipped
C30_PublishesOneDigest ==
    AggEnded =>
        /\ Len(sink) <= 1
        /\ sqsRecords = <<>> => sink = <<>>
        /\ (digest # Null /\ digest.clusters = <<>>) => sink = <<>>
        /\ sink # <<>> =>
              \E synthesized \in BOOLEAN :
                  sink[1] = merge_analysis_results(
                                WithoutSkipped(sqsRecords, skipped), synthesized)

====
